---------------------------- MODULE Spec2Model ----------------------------
(***************************************************************************)
(* SocketTransfer (src/main/core/socket-transfer.ts): the health-check     *)
(* timer and its heartbeat schedule, the two-pass health-check scan, the   *)
(* TCP relay's per-connection handler and the listener's teardown.         *)
(*                                                                         *)
(* Time is counted in milliseconds.  The runtime's timers are tables of    *)
(* live timers, each with the time left until it is due; a timer that is   *)
(* due fires before time passes.  Variables marked "history" record what   *)
(* happened and are read by no action's guard.                             *)
(***************************************************************************)
EXTENDS Integers, Sequences, FiniteSets, TLC

VARIABLES
    heartbeat,     \* this.heartbeat: the delays not yet consumed
    timer,         \* this.timer: the handle last stored (Null before any)
    timers,        \* the runtime's live timers armed by setHealthCheckTimer
    arrays,        \* the heap of Target[] objects, by reference
    targets,       \* this.targets: a reference into arrays
    callerArr,     \* the caller's reference: the array it last passed in or got
    callerCopy,    \* history: that array as the caller left it
    scans,         \* the health-check scans in flight, oldest first
    lastScan,      \* history: the scan the last step finished, if any
    sched,         \* history: the schedule as given when it was last armed
    elapsed,       \* history: ms since sched was armed, while a timer is live
    ticks,         \* history: the elapsed times at which healthCheck ran
    armedIn,       \* history: where the old schedule was when sched replaced it
    stopped,       \* history: where the schedule was when stopHealthCheck ran
    rejected,      \* history: where the schedule was when setHeartBeat threw
    port,          \* this.port
    listening,     \* this.server holds a listening handle
    conns,         \* the client connections accepted so far, oldest first
    bytesTransfer, \* this.bytesTransfer
    unlistens,     \* the unlisten() calls made so far, oldest first
    lastCall,      \* history: the unlisten() call the last step made, if any
    lastListen     \* history: the listen() call the last step made, if any

tvars == <<heartbeat, timer, timers>>
gvars == <<sched, elapsed, ticks, armedIn, stopped, rejected>>
caller == <<callerArr, callerCopy>>
svars == <<arrays, targets, scans, caller>>
rvars == <<port, listening, conns, bytesTransfer>>
cvars == <<unlistens>>

hist == <<lastScan, lastCall, lastListen>>

vars == <<tvars, gvars, svars, rvars, cvars, hist>>

-----------------------------------------------------------------------------
(* Bounds of the model.                                                    *)

MaxElapsed == 14
MaxScans == 2
MaxConns == 2
MaxBytes == 1
MaxUnlisten == 2

(* Program constants.                                                      *)

Null == 0
MinHeartBeat == 5
DefaultHeartBeat == 300000
DefaultPort == 1080
UnlistenTimeoutMs == 500
NotReady == "socket transfer not ready!"

TargetIds == {1081, 1082}

-----------------------------------------------------------------------------
(* JavaScript values handed to setHeartBeat: typeof and, for a number, its *)
(* value.                                                                  *)

Num(n) == [typeof |-> "number", val |-> n]
Str == [typeof |-> "string", val |-> 0]

Scalar(x) == [isArray |-> FALSE, items |-> <<x>>]
Array(xs) == [isArray |-> TRUE, items |-> xs]

\* ([] as number[]).concat(v): a scalar becomes a one-element array, an
\* array is copied.
Concat(v) == v.items

Vals(s) == [i \in 1..Len(s) |-> s[i].val]

\* typeof val !== 'number' || val < 5
Invalid(x) == x.typeof # "number" \/ x.val < MinHeartBeat

Remove(ss, i) == SubSeq(ss, 1, i - 1) \o SubSeq(ss, i + 1, Len(ss))

SeqsUpTo(S, n) == UNION {[1..k -> S] : k \in 0..n}

Range(s) == {s[i] : i \in 1..Len(s)}

-----------------------------------------------------------------------------
(* The heap of Target[] objects.  A reference no longer held by anybody    *)
(* is collected: its slot is reset to the empty array.  The caller keeps   *)
(* the array it last passed to the constructor or to setTargets, or got    *)
(* from getTargets.                                                        *)

ArrIds == 1..(MaxScans + 3)

ScanRefs(ss) == {ss[i].arr : i \in 1..Len(ss)} \ {Null}

\* The arrays referenced by the object (tg), the scans in flight (ss) and
\* the caller (hd).
Refs(tg, ss, hd) == ({tg, hd} \cup ScanRefs(ss)) \ {Null}

FreshArr(tg, ss, hd) == CHOOSE a \in ArrIds \ Refs(tg, ss, hd) :
                            \A b \in ArrIds \ Refs(tg, ss, hd) : a <= b

Collect(arrs, tg, ss, hd) ==
    [a \in ArrIds |-> IF a \in Refs(tg, ss, hd) THEN arrs[a] ELSE <<>>]

-----------------------------------------------------------------------------
(* The runtime's timers.                                                   *)

Ids(live) == {t.id : t \in live}

\* A handle the runtime has not handed out among the live timers, and not
\* the one the object still holds.
FreshHandle(live, held) ==
    CHOOSE h \in 1..(Cardinality(live) + 2) :
        /\ h \notin Ids(live) \cup {held}
        /\ \A g \in 1..(Cardinality(live) + 2) :
               g \notin Ids(live) \cup {held} => h <= g

\* setTimeout(cb, delay)
SetTimeout(live, held, delay) ==
    live \cup {[id |-> FreshHandle(live, held), kind |-> "timeout",
                left |-> delay, delay |-> delay]}

\* setInterval(cb, delay)
SetInterval(live, held, delay) ==
    live \cup {[id |-> FreshHandle(live, held), kind |-> "interval",
                left |-> delay, delay |-> delay]}

\* clearInterval(handle): in Node clearInterval and clearTimeout cancel a
\* timer of either kind; a handle that is not live is ignored.
ClearInterval(live, handle) == {t \in live : t.id # handle}

-----------------------------------------------------------------------------
(* The health-check scan.  A scan in flight is in pass 1, probing the      *)
(* array it was given by reference, or in pass 2, probing its own array    *)
(* of the targets that failed pass 1.  probed and res1 are history: the    *)
(* targets pass 1 probed and the verdicts it got.                          *)

NoCall == [made |-> FALSE, end4 |-> FALSE, end6 |-> FALSE, closeCalled |-> FALSE]

NoScan == [outcome |-> "none", probed |-> <<>>, res1 |-> <<>>, res2 |-> <<>>,
           emitted |-> <<>>, errs |-> 0]

NoReason == [kind |-> "none", text |-> "", port |-> Null]

NoListen == [made |-> FALSE, arg |-> Null, code |-> "none", st |-> "none",
             value |-> Null, reason |-> NoReason]

\* The step finishes no scan and makes no listen() or unlisten() call.
Quiet == lastScan' = NoScan /\ lastCall' = NoCall /\ lastListen' = NoListen

\* results.forEach((pass, i) => { if (!pass) failed.push(targets[i]) })
RECURSIVE Failed(_, _)
Failed(ts, results) ==
    IF Len(results) = 0 THEN <<>>
    ELSE LET n == Len(results)
             rest == Failed(ts, SubSeq(results, 1, n - 1))
         IN  IF results[n] THEN rest ELSE Append(rest, ts[n])

\* doCheckWorks(targets) up to its await: one probe per element of the
\* array as it is now.
StartPass1(arrs, tg) ==
    [pass |-> 1, arr |-> tg, probed |-> arrs[tg], res1 |-> <<>>,
     pending |-> <<>>, emitted |-> <<>>]

\* tk: the invocations recorded since the schedule was armed.
healthCheck(tk) ==
    /\ ticks' = Append(tk, elapsed)
    /\ IF Len(arrays[targets]) = 0
       THEN scans' = scans
       ELSE /\ Len(scans) < MaxScans
            /\ scans' = Append(scans, StartPass1(arrays, targets))

NoHealthCheck(tk) ==
    /\ ticks' = tk
    /\ scans' = scans

\* The scan's promise chain has settled.
Finish(i, rec) ==
    /\ scans' = Remove(scans, i)
    /\ lastScan' = rec
    /\ lastCall' = NoCall
    /\ lastListen' = NoListen
    /\ arrays' = Collect(arrays, targets, Remove(scans, i), callerArr)

\* this.emit('health:check:failed', failed), when failed is not empty
Emit(emitted, failed) ==
    IF Len(failed) # 0 THEN Append(emitted, failed) ELSE emitted

\* A first .then that reports the failures of pass 1 as well.
SettlePass1Reporting(i, r) ==
    LET s == scans[i]
        pending == Failed(arrays[s.arr], r)
    IN  /\ s.pass = 1
        /\ Len(r) = Len(s.probed)
        /\ IF Len(pending) = 0
           THEN Finish(i, [outcome |-> "ok", probed |-> s.probed, res1 |-> r,
                           res2 |-> <<>>, emitted |-> s.emitted, errs |-> 0])
           ELSE /\ scans' = [scans EXCEPT ![i] =
                        [pass |-> 2, arr |-> Null, probed |-> s.probed,
                         res1 |-> r, pending |-> pending,
                         emitted |-> Emit(s.emitted, pending)]]
                /\ arrays' = Collect(arrays, targets, scans', callerArr)
                /\ Quiet

\* Pass 1 settles with results r: the first .then of healthCheck.
SettlePass1(i, r) ==
    LET s == scans[i]
        pending == Failed(arrays[s.arr], r)
    IN  /\ s.pass = 1
        /\ Len(r) = Len(s.probed)
        /\ IF Len(pending) = 0
           THEN Finish(i, [outcome |-> "ok", probed |-> s.probed, res1 |-> r,
                           res2 |-> <<>>, emitted |-> s.emitted, errs |-> 0])
           ELSE /\ scans' = [scans EXCEPT ![i] =
                        [pass |-> 2, arr |-> Null, probed |-> s.probed,
                         res1 |-> r, pending |-> pending,
                         emitted |-> s.emitted]]
                /\ arrays' = Collect(arrays, targets, scans', callerArr)
                /\ Quiet

\* A second .then that also removes the failed targets from the registry.
SettlePass2Pruning(i, r) ==
    LET s == scans[i]
        failed == Failed(s.pending, r)
    IN  /\ s.pass = 2
        /\ Len(r) = Len(s.pending)
        /\ scans' = Remove(scans, i)
        /\ lastScan' = [outcome |-> "ok", probed |-> s.probed, res1 |-> s.res1,
                        res2 |-> r, emitted |-> Emit(s.emitted, failed),
                        errs |-> 0]
        /\ lastCall' = NoCall
        /\ lastListen' = NoListen
        /\ arrays' = Collect(
               [arrays EXCEPT ![targets] =
                   SelectSeq(@, LAMBDA t : t \notin Range(failed))],
               targets, Remove(scans, i), callerArr)

\* Pass 2 settles with results r: the second .then of healthCheck.
SettlePass2(i, r) ==
    LET s == scans[i]
        failed == Failed(s.pending, r)
    IN  /\ s.pass = 2
        /\ Len(r) = Len(s.pending)
        /\ Finish(i, [outcome |-> "ok", probed |-> s.probed, res1 |-> s.res1,
                      res2 |-> r, emitted |-> Emit(s.emitted, failed),
                      errs |-> 0])

\* A .catch that reports what was still to be retried as failed.
SettleErrorReporting(i) ==
    LET s == scans[i]
    IN  Finish(i, [outcome |-> "error", probed |-> s.probed, res1 |-> s.res1,
                   res2 |-> <<>>, emitted |-> Emit(s.emitted, s.pending),
                   errs |-> 1])

\* A probe of either pass rejects: the .catch of healthCheck.
SettleError(i) ==
    LET s == scans[i]
    IN  Finish(i, [outcome |-> "error", probed |-> s.probed, res1 |-> s.res1,
                   res2 |-> <<>>, emitted |-> s.emitted, errs |-> 1])

Results(n) == [1..n -> BOOLEAN]

ScanSettle ==
    /\ \E i \in 1..Len(scans) :
          \/ \E r \in Results(Len(scans[i].probed)) : SettlePass1(i, r)
          \/ \E r \in Results(Len(scans[i].pending)) : SettlePass2(i, r)
    /\ UNCHANGED <<tvars, gvars, targets, caller, rvars, cvars>>

ScanReject ==
    /\ \E i \in 1..Len(scans) : SettleError(i)
    /\ UNCHANGED <<tvars, gvars, targets, caller, rvars, cvars>>

-----------------------------------------------------------------------------
(* The health-check timer.                                                 *)

\* A setHealthCheckTimer that leaves the head of the schedule in place.
setHealthCheckTimerNoShift(immediate, hb, live, tk) ==
    /\ IF immediate THEN healthCheck(tk) ELSE NoHealthCheck(tk)
    /\ IF Len(hb) > 1
       THEN /\ heartbeat' = hb
            /\ timers' = SetTimeout(live, timer, Head(hb))
            /\ timer' = FreshHandle(live, timer)
       ELSE /\ heartbeat' = hb
            /\ timers' = SetInterval(live, timer, hb[1])
            /\ timer' = FreshHandle(live, timer)

\* A setHealthCheckTimer that arms the timer without storing its handle.
setHealthCheckTimerNoStore(immediate, hb, live, tk) ==
    /\ IF immediate THEN healthCheck(tk) ELSE NoHealthCheck(tk)
    /\ IF Len(hb) > 1
       THEN /\ heartbeat' = Tail(hb)
            /\ timers' = SetTimeout(live, timer, Head(hb))
            /\ timer' = timer
       ELSE /\ heartbeat' = hb
            /\ timers' = SetInterval(live, timer, hb[1])
            /\ timer' = timer

\* setHealthCheckTimer(immediate), entered with this.heartbeat = hb and the
\* runtime's timers = live.
setHealthCheckTimer(immediate, hb, live, tk) ==
    /\ IF immediate THEN healthCheck(tk) ELSE NoHealthCheck(tk)
    /\ IF Len(hb) > 1
       THEN /\ heartbeat' = Tail(hb)
            /\ timers' = SetTimeout(live, timer, Head(hb))
            /\ timer' = FreshHandle(live, timer)
       ELSE /\ heartbeat' = hb
            /\ timers' = SetInterval(live, timer, hb[1])
            /\ timer' = FreshHandle(live, timer)

\* Where the schedule is: its one-shot prefix, its periodic tail, or stopped.
Phase == IF timers = {} THEN "stopped"
         ELSE IF \E t \in timers : t.kind = "timeout" THEN "prefix" ELSE "tail"

\* A live timer is due: the runtime runs its callback.
TimerFire ==
    /\ \E t \in timers :
          /\ t.left = 0
          /\ IF t.kind = "timeout"
             THEN setHealthCheckTimer(TRUE, heartbeat, timers \ {t}, ticks)
             ELSE /\ healthCheck(ticks)
                  /\ timers' = (timers \ {t}) \cup {[t EXCEPT !.left = t.delay]}
                  /\ UNCHANGED <<heartbeat, timer>>
    /\ Quiet
    /\ UNCHANGED <<arrays, targets, caller, sched, elapsed, armedIn, stopped,
                   rejected,
                   rvars, cvars>>

\* A stopHealthCheck that cancels nothing while the timer is a timeout.
StopTimerTailOnly ==
    /\ timers' = {t \in timers : t.id # timer \/ t.kind = "timeout"}
    /\ stopped' = IF stopped # "no" THEN stopped ELSE Phase
    /\ UNCHANGED <<heartbeat, timer>>

\* The body of stopHealthCheck: this.timer && clearInterval(this.timer)
StopTimer ==
    /\ timers' = IF timer # Null THEN ClearInterval(timers, timer) ELSE timers
    /\ stopped' = IF stopped # "no" THEN stopped ELSE Phase
    /\ UNCHANGED <<heartbeat, timer>>

stopHealthCheck ==
    /\ StopTimer
    /\ Quiet
    /\ UNCHANGED <<svars, sched, elapsed, ticks, armedIn, rejected, rvars, cvars>>

\* A validation that looks at the first element only.
ThrowsOnFirst(value) == Invalid(value[1])

\* value.forEach(val => { if (typeof val !== 'number' || val < 5) throw })
Throws(value) == \E i \in 1..Len(value) : Invalid(value[i])

\* A setHeartBeat that re-arms without clearing the timer it replaces.
ApplyHeartBeatNoClear(value) ==
    /\ setHealthCheckTimer(FALSE, Vals(value), timers, <<>>)
    /\ rejected' = "no"
    /\ sched' = Vals(value)
    /\ elapsed' = 0
    /\ armedIn' = Phase
    /\ stopped' = "no"
    /\ UNCHANGED <<arrays, targets, caller>>

\* setHeartBeat past its validation: store, clear, re-arm.
ApplyHeartBeat(value) ==
    /\ setHealthCheckTimer(FALSE, Vals(value),
            IF timer # Null THEN ClearInterval(timers, timer) ELSE timers,
            <<>>)
    /\ rejected' = "no"
    /\ sched' = Vals(value)
    /\ elapsed' = 0
    /\ armedIn' = Phase
    /\ stopped' = "no"
    /\ UNCHANGED <<arrays, targets, caller>>

setHeartBeat(v) ==
    /\ LET value == Concat(v)
       IN  IF Len(value) = 0
           THEN UNCHANGED <<tvars, gvars, svars>>
           ELSE IF Throws(value)
           THEN /\ rejected' = Phase
                /\ UNCHANGED <<tvars, svars, sched, elapsed, ticks, armedIn,
                               stopped>>
           ELSE ApplyHeartBeat(value)
    /\ Quiet
    /\ UNCHANGED <<rvars, cvars>>

\* Time passes by d milliseconds; no timer is overdue.  The history clock
\* runs while a health-check timer is live.
PassTime(d) ==
    /\ \A t \in timers : t.left >= d
    /\ \A i \in 1..Len(unlistens) :
           unlistens[i].timerLive => unlistens[i].left >= d
    /\ timers' = {[t EXCEPT !.left = t.left - d] : t \in timers}
    /\ unlistens' = [i \in 1..Len(unlistens) |->
                        IF unlistens[i].timerLive
                        THEN [unlistens[i] EXCEPT !.left = @ - d]
                        ELSE unlistens[i]]
    /\ elapsed' = IF timers = {} THEN elapsed ELSE elapsed + d
    /\ Quiet
    /\ UNCHANGED <<heartbeat, timer, svars, sched, ticks, armedIn, stopped,
                   rejected, rvars>>

-----------------------------------------------------------------------------
(* The target registry.                                                    *)

\* A pushTargets that puts the new targets in front of the old ones.
pushTargetsFront(ts) ==
    /\ Range(ts) \cap Range(arrays[targets]) = {}
    /\ arrays' = [arrays EXCEPT ![targets] = ts \o @]
    /\ Quiet
    /\ UNCHANGED <<tvars, gvars, targets, scans, caller, rvars, cvars>>

\* this.targets.push(...targets): the callers push targets not yet there.
pushTargets(ts) ==
    /\ Range(ts) \cap Range(arrays[targets]) = {}
    /\ arrays' = [arrays EXCEPT ![targets] = @ \o ts]
    /\ Quiet
    /\ UNCHANGED <<tvars, gvars, targets, scans, caller, rvars, cvars>>

\* setTargets(targets): this.targets = targets, the array the caller
\* passes, and keeps or not.
setTargets(ts, keeps) ==
    LET a == FreshArr(targets, scans, Null)
    IN  /\ targets' = a
        /\ callerArr' = IF keeps THEN a ELSE Null
        /\ callerCopy' = IF keeps THEN ts ELSE <<>>
        /\ arrays' = Collect([arrays EXCEPT ![a] = ts], a, scans, a)
        /\ Quiet
        /\ UNCHANGED <<tvars, gvars, scans, rvars, cvars>>

\* this.targets = this.targets.filter(filter); this.setTargets(this.targets)
setTargetsWithFilter(keep) ==
    LET a == FreshArr(targets, scans, callerArr)
        kept == SelectSeq(arrays[targets], LAMBDA t : t \in keep)
    IN  /\ targets' = a
        /\ arrays' = Collect([arrays EXCEPT ![a] = kept], a, scans, callerArr)
        /\ Quiet
        /\ UNCHANGED <<tvars, gvars, scans, caller, rvars, cvars>>

\* getTargets(): return [...this.targets], a new array the caller keeps.
getTargets ==
    LET a == FreshArr(targets, scans, Null)
    IN  /\ callerArr' = a
        /\ callerCopy' = arrays[targets]
        /\ arrays' = Collect([arrays EXCEPT ![a] = arrays[targets]],
                             targets, scans, a)
        /\ Quiet
        /\ UNCHANGED <<tvars, gvars, targets, scans, rvars, cvars>>
-----------------------------------------------------------------------------
(* The TCP relay.  A connection is "refused" (no target: the reply was     *)
(* written and the socket ended), "dialing" (the outbound connection is    *)
(* being made), "piped" (both sockets spliced), "half" (the remote side    *)
(* is gone, the client socket still open) or "done" (the client socket     *)
(* has closed).  onEnd tells whether the 'end' handler was registered.     *)
(* lbErrors, dials and counted are history: the error:loadbalancer events  *)
(* emitted for the connection, the outbound connections opened for it and  *)
(* the times its bytes were added to bytesTransfer; picks the pickOne      *)
(* calls made for it, dialPort the port dialed, dialFailed whether the     *)
(* dial failed, events the events emitted for it, and onOpen and onClose   *)
(* the calls of the balancer's hooks.                                      *)

\* this.lb.pickOne(): one of the registered targets, or none.
PickResults == {Null} \cup Range(arrays[targets])

\* A handler that registers the 'end' handler before it looks at the target.
RefusedAfterHandlers ==
    [st |-> "refused", target |-> Null, bytesRead |-> 0,
     bytesWritten |-> Len(NotReady), reply |-> NotReady, onEnd |-> TRUE,
     lbErrors |-> 1, dials |-> 0, counted |-> 0, picks |-> 1,
     dialPort |-> Null, dialFailed |-> FALSE, events |-> 1, onOpen |-> 0,
     onClose |-> 0]

\* !target || !target.id: onLoadBalancerError(...); return c.end(NotReady)
Refused ==
    [st |-> "refused", target |-> Null, bytesRead |-> 0,
     bytesWritten |-> Len(NotReady), reply |-> NotReady, onEnd |-> FALSE,
     lbErrors |-> 1, dials |-> 0, counted |-> 0, picks |-> 1,
     dialPort |-> Null, dialFailed |-> FALSE, events |-> 1, onOpen |-> 0,
     onClose |-> 0]

\* c.on('end', ...); c.on('error', ...); net.createConnection({port: +target.id})
Relayed(p) ==
    [st |-> "dialing", target |-> p, bytesRead |-> 0, bytesWritten |-> 0,
     reply |-> "", onEnd |-> TRUE, lbErrors |-> 0, dials |-> 1, counted |-> 0,
     picks |-> 1, dialPort |-> p, dialFailed |-> FALSE, events |-> 0,
     onOpen |-> 0, onClose |-> 0]

\* The connection listener of net.createServer.
Accept(p) ==
    /\ listening
    /\ Len(conns) < MaxConns
    /\ conns' = Append(conns, IF p = Null THEN Refused ELSE Relayed(p))
    /\ Quiet
    /\ UNCHANGED <<tvars, gvars, svars, port, listening, bytesTransfer, cvars>>

ConnStep(i, c) ==
    /\ conns' = [conns EXCEPT ![i] = c]
    /\ Quiet
    /\ UNCHANGED <<tvars, gvars, svars, port, listening, cvars>>

\* The outbound connection is made: c.pipe(remote); remote.pipe(c)
DialOk(i) ==
    /\ conns[i].st = "dialing"
    /\ ConnStep(i, [conns[i] EXCEPT !.st = "piped"])
    /\ UNCHANGED bytesTransfer

\* An onRemoteError that dials the target's neighbour.
RemoteErrorFailover(i) ==
    /\ conns[i].st \in {"dialing", "piped"}
    /\ ConnStep(i, [conns[i] EXCEPT !.st = "dialing", !.dials = @ + 1,
                                    !.picks = @ + 1,
                                    !.dialFailed = (conns[i].st = "dialing")])
    /\ UNCHANGED bytesTransfer

\* remote 'error' (a failed dial included): onRemoteError only logs.
RemoteError(i) ==
    /\ conns[i].st \in {"dialing", "piped"}
    /\ ConnStep(i, [conns[i] EXCEPT !.st = "half",
                                    !.dialFailed = (conns[i].st = "dialing")])
    /\ UNCHANGED bytesTransfer

\* remote 'end': remote.pipe(c) ends the client socket's writable side.
RemoteEnd(i) ==
    /\ conns[i].st = "piped"
    /\ ConnStep(i, [conns[i] EXCEPT !.st = "half"])
    /\ UNCHANGED bytesTransfer

\* The client sends a byte.
ClientData(i) ==
    /\ conns[i].st \in {"dialing", "piped", "half"}
    /\ conns[i].bytesRead < MaxBytes
    /\ ConnStep(i, [conns[i] EXCEPT !.bytesRead = @ + 1])
    /\ UNCHANGED bytesTransfer

\* The remote sends a byte, piped to the client.
RemoteData(i) ==
    /\ conns[i].st = "piped"
    /\ conns[i].bytesWritten < MaxBytes
    /\ ConnStep(i, [conns[i] EXCEPT !.bytesWritten = @ + 1])
    /\ UNCHANGED bytesTransfer

\* client 'end': the handler, where registered, adds the socket's counters.
ClientEnd(i) ==
    /\ conns[i].st \in {"refused", "dialing", "piped", "half"}
    /\ IF conns[i].onEnd
       THEN /\ bytesTransfer' =
                   bytesTransfer + conns[i].bytesRead + conns[i].bytesWritten
            /\ ConnStep(i, [conns[i] EXCEPT !.st = "done", !.counted = @ + 1])
       ELSE /\ bytesTransfer' = bytesTransfer
            /\ ConnStep(i, [conns[i] EXCEPT !.st = "done"])

\* client 'error': onLocalError logs and the socket is destroyed; no 'end'
\* event follows.
ClientError(i) ==
    /\ conns[i].st \in {"dialing", "piped", "half"}
    /\ ConnStep(i, [conns[i] EXCEPT !.st = "done"])
    /\ UNCHANGED bytesTransfer

Open(cs) == {i \in 1..Len(cs) : cs[i].st # "done"}

ListenPorts == {Null, 1090}

\* What the listener does with the handle: it comes up, or it emits 'error'
\* with this code.
ListenOutcomes == {"listening", "EADDRINUSE", "EACCES"}

\* The handler of 'error:socket:transfer': what reject() is called with for
\* an error of this code, this.port being pt.  The error is never null, so
\* error ?? new Error(...) is the error.
Rejection(code, pt) ==
    IF code = "EADDRINUSE"
    THEN [kind |-> "string", text |-> "port_already_used", port |-> pt]
    ELSE [kind |-> "error", text |-> code, port |-> Null]

\* listen(port?): the port is stored when given; on a server that is
\* already listening server.listen throws inside the executor; otherwise
\* the listener comes up and the promise resolves with the argument, or it
\* emits 'error' and the promise rejects.
listen(p, r) ==
    /\ port' = IF p # Null THEN p ELSE port
    /\ IF listening
       THEN /\ listening' = TRUE
            /\ lastListen' = [made |-> TRUE, arg |-> p, code |-> "none",
                              st |-> "rejected", value |-> Null,
                              reason |-> [kind |-> "error",
                                          text |-> "ERR_SERVER_ALREADY_LISTEN",
                                          port |-> Null]]
       ELSE IF r = "listening"
       THEN /\ listening' = TRUE
            /\ lastListen' = [made |-> TRUE, arg |-> p, code |-> "none",
                              st |-> "resolved", value |-> p,
                              reason |-> NoReason]
       ELSE /\ listening' = FALSE
            /\ lastListen' = [made |-> TRUE, arg |-> p, code |-> r,
                              st |-> "rejected", value |-> Null,
                              reason |-> Rejection(r, port')]
    /\ lastScan' = NoScan
    /\ lastCall' = NoCall
    /\ UNCHANGED <<tvars, gvars, svars, conns, bytesTransfer, cvars>>

-----------------------------------------------------------------------------
(* unlisten.  A call is "pending" until its promise settles.  waiter is    *)
(* what its callback, while registered for the server's 'close', will      *)
(* resolve with; left and timerLive are its 500 ms timer.                  *)

\* try { udpServers[0].end(); udpServers[1].end() } catch { log }: t4, t6
\* tell whether each end() throws.
TryEnd(t4, t6) ==
    [end4 |-> TRUE, end6 |-> ~t4, escaped |-> FALSE]

\* A promise whose every resolve call replaces its value.
ResolveLast(c, v) == [c EXCEPT !.st = "resolved", !.value = v]

\* resolve(v): settles a pending promise, and is ignored by a settled one.
Resolve(c, v) ==
    IF c.st = "pending" THEN [c EXCEPT !.st = "resolved", !.value = v] ELSE c

\* The promise executor of unlisten, the server listening (up) or not.
UnlistenCall(escaped, up) ==
    IF escaped
    THEN [st |-> "rejected", value |-> "thrown", waiter |-> "none",
          left |-> 0, timerLive |-> FALSE]
    ELSE [st |-> "pending", value |-> "none",
          waiter |-> IF up THEN "void" ELSE "notRunning",
          left |-> UnlistenTimeoutMs, timerLive |-> TRUE]

UnlistenBody(t4, t6) ==
    LET r == TryEnd(t4, t6)
    IN  /\ Len(unlistens) < MaxUnlisten
        /\ unlistens' = Append(unlistens, UnlistenCall(r.escaped, listening))
        /\ listening' = (listening /\ r.escaped)
        /\ lastCall' = [made |-> TRUE, end4 |-> r.end4, end6 |-> r.end6,
                        closeCalled |-> ~r.escaped]
        /\ lastScan' = NoScan
        /\ lastListen' = NoListen

unlisten(t4, t6) ==
    /\ UnlistenBody(t4, t6)
    /\ UNCHANGED <<tvars, gvars, svars, port, conns, bytesTransfer>>

\* stop(): this.stopHealthCheck(); await this.unlisten()
stop(t4, t6) ==
    /\ StopTimer
    /\ UnlistenBody(t4, t6)
    /\ UNCHANGED <<svars, sched, elapsed, ticks, armedIn, rejected, port,
                   conns, bytesTransfer>>

\* The server's 'close' event: the handle is closed and no connection is
\* left; every registered callback runs.
CloseEmit ==
    /\ ~listening
    /\ Open(conns) = {}
    /\ \E i \in 1..Len(unlistens) : unlistens[i].waiter # "none"
    /\ unlistens' = [i \in 1..Len(unlistens) |->
          IF unlistens[i].waiter = "none" THEN unlistens[i]
          ELSE [Resolve(unlistens[i], unlistens[i].waiter) EXCEPT
                    !.waiter = "none"]]
    /\ Quiet
    /\ UNCHANGED <<tvars, gvars, svars, rvars>>

\* The 500 ms timer of an unlisten call is due.
UnlistenTimeout(i) ==
    /\ unlistens[i].timerLive
    /\ unlistens[i].left = 0
    /\ unlistens' = [unlistens EXCEPT ![i] =
          [Resolve(unlistens[i], "timeout") EXCEPT !.timerLive = FALSE]]
    /\ Quiet
    /\ UNCHANGED <<tvars, gvars, svars, rvars>>

\* The time until the next timer is due.
NextDue ==
    LET lefts == {t.left : t \in timers} \cup
                 {unlistens[i].left : i \in {j \in 1..Len(unlistens) :
                                                unlistens[j].timerLive}}
    IN  CHOOSE d \in lefts : \A e \in lefts : d <= e

-----------------------------------------------------------------------------
(* Construction.                                                           *)

\* new SocketTransfer({heartbeat: hb, targets: ts}), the caller keeping the
\* array ts or not.
construct(hb, ts, keeps) ==
    /\ arrays = [a \in ArrIds |-> IF a = 1 THEN ts ELSE <<>>]
    /\ targets = 1
    /\ callerArr = IF keeps THEN 1 ELSE Null
    /\ callerCopy = IF keeps THEN ts ELSE <<>>
    /\ scans = <<>>
    /\ lastScan = NoScan
    /\ sched = hb
    /\ elapsed = 0
    /\ ticks = <<>>
    /\ armedIn = "construct"
    /\ stopped = "no"
    /\ rejected = "no"
    /\ IF Len(hb) > 1
       THEN /\ heartbeat = Tail(hb)
            /\ timers = SetTimeout({}, Null, Head(hb))
            /\ timer = FreshHandle({}, Null)
       ELSE /\ heartbeat = hb
            /\ timers = SetInterval({}, Null, hb[1])
            /\ timer = FreshHandle({}, Null)
    /\ port = DefaultPort
    /\ listening = FALSE
    /\ conns = <<>>
    /\ bytesTransfer = 0
    /\ unlistens = <<>>
    /\ lastCall = NoCall
    /\ lastListen = NoListen

(* The inputs the specifications draw from.                                *)

InitSchedules == {<<1, 2, 3>>, <<2, 3>>, <<4>>}

HeartBeatInputs ==
    {Scalar(Num(5)), Scalar(Num(4)), Scalar(Str),
     Array(<<>>), Array(<<Num(5), Num(6)>>), Array(<<Num(6), Num(4)>>),
     Array(<<Num(5), Str>>)}

ScanSchedule == <<7>>

Tick == elapsed < MaxElapsed /\ PassTime(1)

(* The timer and its schedule, over a registry of at most one target.      *)

InitTimer == \E hb \in InitSchedules, ts \in {<<>>, <<1081>>} : construct(hb, ts, FALSE)

NextTimer ==
    \/ TimerFire
    \/ ScanSettle
    \/ ScanReject
    \/ stopHealthCheck
    \/ \E v \in HeartBeatInputs : setHeartBeat(v)
    \/ Tick

SpecTimer == InitTimer /\ [][NextTimer]_vars

(* The scan, over a registry that changes while scans are in flight.       *)

\* The registries handed in: every sequence of distinct targets.
Registries ==
    {ts \in SeqsUpTo(TargetIds, Cardinality(TargetIds)) :
        \A i, j \in 1..Len(ts) : ts[i] = ts[j] => i = j}

\* Time passes until the health-check timer is due.
Due ==
    /\ timers # {}
    /\ NextDue > 0
    /\ elapsed + NextDue <= MaxElapsed
    /\ PassTime(NextDue)

InitScan == \E ts \in Registries : construct(ScanSchedule, ts, FALSE)

NextScan ==
    \/ TimerFire
    \/ ScanSettle
    \/ ScanReject
    \/ \E ts \in SeqsUpTo(TargetIds, 1) \ {<<>>} : pushTargets(ts)
    \/ \E ts \in Registries : setTargets(ts, FALSE)
    \/ \E keep \in SUBSET TargetIds : setTargetsWithFilter(keep)
    \/ Due

SpecScan == InitScan /\ [][NextScan]_vars

(* The relay, under the default heartbeat, listening before it accepts.   *)

InitRelay ==
    \E ts \in {<<>>, <<1081, 1082>>} :
        construct(<<DefaultHeartBeat>>, ts, FALSE)

NextRelay ==
    \/ \E p \in ListenPorts, r \in ListenOutcomes :
          conns = <<>> /\ listen(p, r)
    \/ \E p \in PickResults : Accept(p)
    \/ \E i \in 1..Len(conns) : DialOk(i)
    \/ \E i \in 1..Len(conns) : RemoteError(i)
    \/ \E i \in 1..Len(conns) : RemoteEnd(i)
    \/ \E i \in 1..Len(conns) : ClientData(i)
    \/ \E i \in 1..Len(conns) : RemoteData(i)
    \/ \E i \in 1..Len(conns) : ClientEnd(i)
    \/ \E i \in 1..Len(conns) : ClientError(i)

SpecRelay == InitRelay /\ [][NextRelay]_vars

(* The teardown, with sessions in flight.                                  *)

CloseTime ==
    /\ \E i \in 1..Len(unlistens) : unlistens[i].timerLive
    /\ NextDue > 0
    /\ PassTime(NextDue)

InitClose == construct(<<DefaultHeartBeat>>, <<1081>>, FALSE)

NextClose ==
    \/ listen(Null, "listening")
    \/ \E p \in Range(arrays[targets]) : Accept(p)
    \/ \E i \in 1..Len(conns) : ClientEnd(i)
    \/ \E t4, t6 \in BOOLEAN : unlisten(t4, t6)
    \/ \E t4, t6 \in BOOLEAN : stop(t4, t6)
    \/ CloseEmit
    \/ \E i \in 1..Len(unlistens) : UnlistenTimeout(i)
    \/ CloseTime

SpecClose == InitClose /\ [][NextClose]_vars

\* The runtime's clock runs and a timer that is due fires.
LiveClose ==
    /\ SpecClose
    /\ WF_vars(CloseTime)
    /\ WF_vars(\E i \in 1..Len(unlistens) : UnlistenTimeout(i))
    /\ WF_vars(CloseEmit)

(* The registry and its callers, who keep the arrays they pass and get.    *)

InitAlias == \E ts \in Registries : construct(<<DefaultHeartBeat>>, ts, TRUE)

NextAlias ==
    \/ \E ts \in SeqsUpTo(TargetIds, 1) \ {<<>>} : pushTargets(ts)
    \/ \E ts \in Registries, keeps \in BOOLEAN : setTargets(ts, keeps)
    \/ \E keep \in SUBSET TargetIds : setTargetsWithFilter(keep)
    \/ getTargets

SpecAlias == InitAlias /\ [][NextAlias]_vars

(* Every operation next to the registry's own and the scan's.  A         *)
(* behaviour takes its other operations from one group: the timer's        *)
(* controls, the server's (listen, one connection, one teardown) or        *)
(* getTargets.  The heartbeat is as long as the teardown's timer.          *)

FrameSchedule == <<UnlistenTimeoutMs>>

\* Time passes until the next timer, of either kind, is due.
FrameTime ==
    /\ timers # {} \/ \E i \in 1..Len(unlistens) : unlistens[i].timerLive
    /\ NextDue > 0
    /\ ticks = <<>>
    /\ PassTime(NextDue)

\* No setHeartBeat or stopHealthCheck call was made.
TimerIdle == armedIn = "construct" /\ rejected = "no" /\
             (stopped = "no" \/ unlistens # <<>>)

\* No listen, connection or teardown was made.
ServerIdle == ~listening /\ conns = <<>> /\ unlistens = <<>>

\* No getTargets call was made.
CallerIdle == callerArr = Null

InitFrame == construct(FrameSchedule, <<1081>>, FALSE)

NextFrame ==
    \/ scans = <<>> /\ TimerFire
    \/ ScanSettle
    \/ ScanReject
    \/ FrameTime
    \/ pushTargets(<<1082>>)
    \/ setTargets(<<1082>>, FALSE)
    \/ setTargetsWithFilter({1082})
    \/ ServerIdle /\ CallerIdle /\ stopHealthCheck
    \/ \E v \in {Scalar(Num(UnlistenTimeoutMs)), Scalar(Num(4))} :
          ServerIdle /\ CallerIdle /\ setHeartBeat(v)
    \/ TimerIdle /\ ServerIdle /\ getTargets
    \/ TimerIdle /\ CallerIdle /\ listen(Null, "listening")
    \/ \E p \in PickResults :
          TimerIdle /\ CallerIdle /\ conns = <<>> /\ Accept(p)
    \/ \E i \in 1..Len(conns) : ClientEnd(i)
    \/ TimerIdle /\ CallerIdle /\ unlistens = <<>> /\ unlisten(FALSE, FALSE)
    \/ TimerIdle /\ CallerIdle /\ unlistens = <<>> /\ stop(FALSE, FALSE)
    \/ CloseEmit
    \/ \E i \in 1..Len(unlistens) : UnlistenTimeout(i)

SpecFrame == InitFrame /\ [][NextFrame]_vars

(* Everything together.                                                    *)

Init == \E hb \in InitSchedules \cup {ScanSchedule, <<DefaultHeartBeat>>},
           ts \in Registries, keeps \in BOOLEAN : construct(hb, ts, keeps)

Next == NextTimer \/ NextScan \/ NextRelay \/ NextClose \/ NextAlias \/ NextFrame

Spec == Init /\ [][Next]_vars


-----------------------------------------------------------------------------
(* The properties.                                                         *)

Indices(n) == [i \in 1..n |-> i]

\* The positions of s that hold FALSE, in order.
Falses(s) == SelectSeq(Indices(Len(s)), LAMBDA i : ~s[i])

\* The targets of a finished scan whose probe returned FALSE in pass 1 and
\* again in pass 2, in the order they were probed.
FailedBoth(rec) ==
    LET f1 == Falses(rec.res1)
        f2 == Falses(rec.res2)
    IN  [k \in 1..Len(f2) |-> rec.probed[f1[f2[k]]]]

\* C1: a scan that completes without a checker error retries exactly the
\* targets that failed pass 1, and emits health:check:failed once, with
\* exactly the targets that failed both passes, or not at all when there is
\* no such target.
ScanReportsFailedBoth ==
    lastScan.outcome = "ok" =>
        /\ Len(lastScan.res1) = Len(lastScan.probed)
        /\ Len(lastScan.res2) = Len(Falses(lastScan.res1))
        /\ lastScan.errs = 0
        /\ lastScan.emitted = IF Len(FailedBoth(lastScan)) = 0 THEN <<>>
                              ELSE <<FailedBoth(lastScan)>>

\* A scan of two targets finishes after the registry was emptied: both fail
\* pass 1, the first recovers in pass 2, the second is reported.
ScanReportsFailedBothWitness ==
    /\ lastScan.outcome = "ok"
    /\ lastScan.probed = <<1081, 1082>>
    /\ lastScan.res1 = <<FALSE, FALSE>>
    /\ lastScan.res2 = <<TRUE, FALSE>>
    /\ lastScan.emitted = <<(<<1082>>)>>
    /\ arrays[targets] = <<>>

\* The elapsed time of the i-th invocation under schedule s: the prefix is
\* walked once, the last element repeats.
RECURSIVE TickTime(_, _)
TickTime(s, i) ==
    IF i = 0 THEN 0
    ELSE TickTime(s, i - 1) + s[IF i < Len(s) THEN i ELSE Len(s)]

\* Every invocation so far ran at its time under sched, and none is overdue.
OnSchedule ==
    /\ \A i \in 1..Len(ticks) : ticks[i] = TickTime(sched, i)
    /\ elapsed <= TickTime(sched, Len(ticks) + 1)

\* C2: under the schedule given at construction no scan starts at
\* construction, and healthCheck runs at d1, d1+d2, ..., d1+...+dk and from
\* then on every dk.
ConstructionSchedule ==
    armedIn = "construct" =>
        /\ elapsed = 0 => ticks = <<>> /\ scans = <<>>
        /\ stopped = "no" => OnSchedule
        /\ stopped # "no" => \A i \in 1..Len(ticks) : ticks[i] = TickTime(sched, i)

ConstructionScheduleWitness ==
    /\ armedIn = "construct"
    /\ stopped = "no"
    /\ sched = <<1, 2, 3>>
    /\ ticks = <<1, 3, 6, 9, 12>>

\* v, or an element of it, is not a number or is below 5.
BadHeartBeat(v) ==
    \E i \in 1..Len(v.items) :
        v.items[i].typeof # "number" \/ v.items[i].val < 5

\* C3: setHeartBeat with a value that is, or holds, a non-number or a number
\* below 5 throws and changes neither the stored schedule nor the timer, and
\* the ticks that follow stay on the schedule armed before.
InvalidHeartBeatRejected ==
    /\ [][\A v \in HeartBeatInputs :
             BadHeartBeat(v) /\ setHeartBeat(v) =>
                 /\ rejected' # "no"
                 /\ UNCHANGED <<heartbeat, timer, timers, sched, ticks, elapsed>>
                 /\ scans' = scans]_vars
    /\ [](rejected # "no" /\ stopped = "no" => OnSchedule)

\* A value was rejected during the prefix of <<1, 2, 3>>, and the prefix and
\* the tail ran at their times all the same.
InvalidHeartBeatRejectedWitness ==
    /\ rejected = "prefix"
    /\ stopped = "no"
    /\ armedIn = "construct"
    /\ sched = <<1, 2, 3>>
    /\ ticks = <<1, 3, 6, 9>>

\* C4: after a setHeartBeat that succeeds, in the prefix or in the tail of
\* the old schedule, the one live timer is the one just armed, the call
\* itself starts no scan, and healthCheck runs on the new schedule counted
\* from the call.
NewHeartBeatReplacesOld ==
    /\ [](armedIn # "construct" /\ stopped = "no" =>
             /\ OnSchedule
             /\ Cardinality(timers) = 1
             /\ \A t \in timers : t.id = timer)
    /\ [][\A v \in HeartBeatInputs :
             v.items # <<>> /\ ~BadHeartBeat(v) /\ setHeartBeat(v) =>
                 /\ scans' = scans
                 /\ ticks' = <<>>
                 /\ elapsed' = 0
                 /\ sched' = Vals(v.items)]_vars

\* <<5, 6>> replaced a schedule still in its prefix, and ran at 5, 11.
NewHeartBeatReplacesOldWitness ==
    /\ armedIn = "prefix"
    /\ stopped = "no"
    /\ sched = <<5, 6>>
    /\ ticks = <<5, 11>>

\* C5: once stopHealthCheck has run, in the prefix or in the tail, no
\* health-check timer is live, healthCheck runs no more and no scan starts.
StoppedStaysStopped ==
    /\ [](stopped # "no" => timers = {})
    /\ [][stopped # "no" /\ stopped' # "no" =>
             ticks' = ticks /\ Len(scans') <= Len(scans)]_vars

\* The schedule <<1, 2, 3>> was stopped after its first tick, its second
\* timeout pending.
StoppedStaysStoppedWitness ==
    /\ stopped = "prefix"
    /\ sched = <<1, 2, 3>>
    /\ ticks = <<1>>
    /\ elapsed = 2
    /\ timers = {}

\* C6: at most one scan is in flight at any moment.
ScansDoNotInterleave == Len(scans) <= 1

RECURSIVE Counted(_)
\* The bytes of the connections whose 'end' handler ran.
Counted(cs) ==
    IF Len(cs) = 0 THEN 0
    ELSE LET c == cs[Len(cs)]
         IN  Counted(SubSeq(cs, 1, Len(cs) - 1)) +
             c.counted * (c.bytesRead + c.bytesWritten)

\* C7: a connection for which pickOne returns no target gets one
\* error:loadbalancer event and the body 'socket transfer not ready!', is
\* closed, gets no outbound connection, and adds nothing to bytesTransfer.
NoTargetRefused ==
    /\ \A i \in 1..Len(conns) :
          conns[i].target = Null =>
              /\ conns[i].lbErrors = 1
              /\ conns[i].reply = "socket transfer not ready!"
              /\ conns[i].st \in {"refused", "done"}
              /\ conns[i].dials = 0
              /\ conns[i].counted = 0
    /\ bytesTransfer = Counted(SelectSeq(conns, LAMBDA c : c.target # Null))

\* A refused connection has closed next to a relayed one that was counted.
NoTargetRefusedWitness ==
    /\ Len(conns) = 2
    /\ conns[1].target = Null
    /\ conns[1].st = "done"
    /\ conns[2].target # Null
    /\ conns[2].counted = 1
    /\ bytesTransfer = 2

\* C8: every relay session that has completed, however it ended, was added
\* to bytesTransfer exactly once.
EverySessionCounted ==
    \A i \in 1..Len(conns) :
        conns[i].target # Null /\ conns[i].st = "done" => conns[i].counted = 1

\* C9: an unlisten() call never rejects; it resolves with the result of the
\* listener's close if the close completes first and with the timeout error
\* when its 500 ms have passed otherwise; the value it resolved with first
\* stays; and every call resolves eventually.
UnlistenSettles ==
    /\ [](\A i \in 1..Len(unlistens) :
             /\ unlistens[i].st \in {"pending", "resolved"}
             /\ unlistens[i].st = "pending" => unlistens[i].timerLive
             /\ unlistens[i].left <= 500)
    /\ [][\A i \in 1..Len(unlistens) :
             LET u == unlistens[i]
                 w == unlistens'[i]
             IN  /\ u.st = "resolved" => w.st = "resolved" /\ w.value = u.value
                 /\ u.st = "pending" /\ w.st = "resolved" =>
                       \/ /\ w.value = "timeout"
                          /\ u.timerLive /\ u.left = 0
                          /\ u.waiter # "none"
                       \/ /\ w.value = u.waiter
                          /\ u.waiter \in {"void", "notRunning"}
                          /\ ~listening
                          /\ Open(conns) = {}
                 /\ u.st = "pending" /\ u.waiter # "none" /\ w.waiter = "none" =>
                       w.st = "resolved" /\ w.value = u.waiter]_vars
    /\ \A i \in 1..MaxUnlisten :
          (Len(unlistens) >= i) ~>
              (Len(unlistens) >= i /\ unlistens[i].st = "resolved")

\* A call has resolved with the timeout while a session keeps the listener
\* from closing.
UnlistenSettlesWitness ==
    /\ Len(unlistens) = 1
    /\ unlistens[1].st = "resolved"
    /\ unlistens[1].value = "timeout"
    /\ unlistens[1].waiter = "void"
    /\ Open(conns) # {}

\* C10: every unlisten() calls end() on both UDP forwarders and closes the
\* listener, whichever end() throws.
TeardownReachesAll ==
    lastCall.made => lastCall.end4 /\ lastCall.end6 /\ lastCall.closeCalled

\* C11: a listen() that succeeds resolves with the port the server is bound
\* to, with or without an argument.
ListenResolvesBoundPort ==
    lastListen.st = "resolved" => lastListen.value = port

\* C12: a listen() whose listener fails rejects with the port_already_used
\* string and the port for EADDRINUSE, and with the generic
\* failed_to_start_socket_transfer message for any other error.
ListenRejectsLocalized ==
    lastListen.made /\ lastListen.code # "none" =>
        /\ lastListen.st = "rejected"
        /\ lastListen.reason =
              IF lastListen.code = "EADDRINUSE"
              THEN [kind |-> "string", text |-> "port_already_used",
                    port |-> port]
              ELSE [kind |-> "string",
                    text |-> "failed_to_start_socket_transfer", port |-> Null]

\* C13: once unlisten() or stop() has been called the listener never
\* listens again.
ClosedStaysClosed == Len(unlistens) > 0 => ~listening

\* C15: the array a caller passed to the constructor or to setTargets, or
\* got from getTargets, changes only when the caller changes it: the
\* registry holds no alias of it.
CallerArrayUntouched == callerArr # Null => arrays[callerArr] = callerCopy

\* C14: the registry's sequence of targets changes only in a step of
\* pushTargets, setTargets or setTargetsWithFilter; a scan, a connection,
\* listen, unlisten, stop, setHeartBeat, stopHealthCheck, getTargets and a
\* timer leave it as it is.
RegistryFrame ==
    [][arrays'[targets'] # arrays[targets] =>
          \/ \E ts \in Registries : pushTargets(ts)
          \/ \E ts \in Registries, keeps \in BOOLEAN : setTargets(ts, keeps)
          \/ \E keep \in SUBSET TargetIds : setTargetsWithFilter(keep)]_vars

\* A scan has reported 1081 as failed, a connection was relayed and the
\* listener torn down, and the registry is what pushTargets left.
RegistryFrameWitness ==
    /\ lastScan.outcome = "ok"
    /\ lastScan.emitted = <<(<<1081>>)>>
    /\ arrays[targets] = <<1081, 1082>>
    /\ Len(conns) = 1
    /\ conns[1].st = "done"
    /\ Len(unlistens) = 1
    /\ stopped # "no"

\* C16: a scan whose checker rejects, in pass 1 or in pass 2, emits
\* error:health:heck once and no health:check:failed, and leaves the timer
\* as it is: healthCheck goes on running at the schedule's times.
ScanErrorAbandons ==
    /\ [](lastScan.outcome = "error" =>
             lastScan.errs = 1 /\ lastScan.emitted = <<>>)
    /\ [][lastScan'.outcome = "error" =>
             UNCHANGED <<heartbeat, timer, timers, sched, ticks, elapsed>>]_vars
    /\ [](stopped = "no" => Cardinality(timers) = 1 /\ OnSchedule)

\* The scan started at 7 failed its only target in pass 1 and was rejected
\* in pass 2, after the tick at 14 had started the next scan.
ScanErrorAbandonsWitness ==
    /\ lastScan.outcome = "error"
    /\ lastScan.res1 = <<FALSE>>
    /\ ticks = <<7, 14>>
    /\ Len(scans) = 1

\* C17: the balancer's onOpen is called for every dial and its onClose when
\* the session ends or the dial fails.
BalancerNotified ==
    \A i \in 1..Len(conns) :
        /\ conns[i].onOpen = conns[i].dials
        /\ conns[i].st = "done" \/ conns[i].dialFailed =>
               conns[i].onClose = conns[i].onOpen

\* C18: every accepted connection takes one pickOne call and at most one
\* dial, to the port that is the picked target's id; after a failed dial
\* there is no other pick and no other dial, and no event is emitted.
NoFailover ==
    \A i \in 1..Len(conns) :
        /\ conns[i].picks = 1
        /\ conns[i].dials <= 1
        /\ conns[i].target # Null =>
               /\ conns[i].dials = 1
               /\ conns[i].dialPort = conns[i].target
               /\ conns[i].events = 0
        /\ conns[i].dialFailed => conns[i].st \in {"half", "done"}

\* The dial to 1082 failed and the client socket is still open.
NoFailoverWitness ==
    /\ Len(conns) = 1
    /\ conns[1].target = 1082
    /\ conns[1].dialFailed
    /\ conns[1].st = "half"
    /\ conns[1].dials = 1

\* C19: at most one health-check timer is armed at any moment, and the
\* stored handle is the handle of the timer armed last, so every armed
\* timer can be cancelled.
OneTimerArmed ==
    /\ Cardinality(timers) <= 1
    /\ \A t \in timers : t.id = timer
    /\ timer # Null

\* A schedule set during the prefix of the first has walked its own prefix
\* and runs its interval.
OneTimerArmedWitness ==
    /\ armedIn = "prefix"
    /\ sched = <<5, 6>>
    /\ ticks = <<5>>
    /\ \E t \in timers : t.kind = "interval" /\ t.id = timer

\* C20: a scan works on the registry as it was when it started, whatever
\* pushTargets, setTargets and setTargetsWithFilter do while it is in
\* flight: pass 2 probes exactly the targets that failed pass 1, every
\* reported target was probed by pass 1 and failed its own probe in both
\* passes, and an invocation that finds the registry empty starts no scan
\* and emits nothing.
ScanKeepsItsSnapshot ==
    /\ [](\A i \in 1..Len(scans) :
             /\ scans[i].pass = 1 =>
                    /\ Len(arrays[scans[i].arr]) >= Len(scans[i].probed)
                    /\ SubSeq(arrays[scans[i].arr], 1, Len(scans[i].probed))
                           = scans[i].probed
             /\ scans[i].pass = 2 =>
                    /\ Len(scans[i].res1) = Len(scans[i].probed)
                    /\ scans[i].pending = Failed(scans[i].probed, scans[i].res1)
                    /\ scans[i].emitted = <<>>)
    /\ [](lastScan.outcome = "ok" =>
             \A k \in 1..Len(lastScan.emitted) :
                 /\ lastScan.emitted[k] =
                        Failed(Failed(lastScan.probed, lastScan.res1),
                               lastScan.res2)
                 /\ Range(lastScan.emitted[k]) \subseteq Range(lastScan.probed))
    /\ [][ticks' # ticks /\ Len(arrays[targets]) = 0 =>
             scans' = scans /\ lastScan' = NoScan]_vars

\* The only target of the registry failed both passes of the scan started
\* at 7 and was reported, although the registry had a second target by the
\* time the scan finished.
ScanKeepsItsSnapshotWitness ==
    /\ lastScan.outcome = "ok"
    /\ lastScan.probed = <<1081>>
    /\ lastScan.res1 = <<FALSE>>
    /\ lastScan.res2 = <<FALSE>>
    /\ lastScan.emitted = <<(<<1081>>)>>
    /\ arrays[targets] = <<1081, 1082>>
    /\ ticks = <<7>>
=============================================================================
